---- MODULE Spec2Model ----
(***************************************************************************)
(* Model of src/app.py: the Streamlit live-streaming scheduler.            *)
(*                                                                         *)
(* One control thread executes main() once per refresh cycle: it           *)
(* reconciles the status files (check_stream_statuses), triggers the       *)
(* scheduled streams (check_scheduled_streams) and then handles at most    *)
(* one button click (Start, Stop, Remove, Add Stream).  Every start_stream *)
(* launches a daemon thread running run_ffmpeg; the threads interleave     *)
(* freely with the control thread and with each other.                     *)
(*                                                                         *)
(* Row ids: the DataFrame index is 0..n-1 in the source (ignore_index /    *)
(* reset_index); the model uses the positions 1..n of the sequence         *)
(* `streams`, a renaming that keeps "id = position".                       *)
(*                                                                         *)
(* Atomicity: a statement that touches only st.session_state.streams       *)
(* (which no thread reads or writes) is merged with the adjacent statement *)
(* that touches a file; run_ffmpeg's log_callback calls are merged with    *)
(* the adjacent file or process operation.  The POSIX branch of            *)
(* stop_stream is modelled (os.name /= 'nt'); process identifiers are      *)
(* never recycled.                                                         *)
(***************************************************************************)
EXTENDS Naturals, Sequences, FiniteSets, TLC

\* ------------------------------------------------------------- bounds
\* Number of Add Stream operations that are accepted in one behaviour.
MaxCreates == 2
\* Number of output lines one encoder process writes before it closes its output.
MaxLines == 1

\* Number of output lines of the one encoder process of SpecLog (more than LogCap).
MaxLogLines == 103

\* ---------------------------------------------------------- constants
\* log_callback keeps the last 100 entries.
LogCap == 100

Ids == 1..MaxCreates
Times == {"10:00", "10:01"}
Videos == {"", "a.mp4"}
Keys == {"", "key1"}
ExitCodes == {0, 1}

\* Row status values (column 'Status').
Menunggu == "Menunggu"
SedangLive == "Sedang Live"
Selesai == "Selesai"
Dihentikan == "Dihentikan"
\* str(e) of the exception raised by a failed subprocess.Popen.
SpawnErrorText == "[Errno 2] No such file or directory: 'ffmpeg'"
\* f"error: {str(e)}"
ErrorMarker == "error: " \o SpawnErrorText

\* Contents of stream_<id>.status; NoFile stands for "the file does not exist".
NoFile == "<absent>"
Markers == {"starting", "streaming", "completed", "stopped", ErrorMarker}

\* status.startswith("error:")
StartsWithError(s) == s = ErrorMarker

VARIABLES
  streams,     \* st.session_state.streams: the rows, id = position
  logs,        \* st.session_state.logs: dict row_id -> list of messages
  appended,    \* history: per key of logs, every entry appended since the key was created
  statusFile,  \* stream_<id>.status
  pidFile,     \* stream_<id>.pid: 0 = no file, else the pid written
  threads,     \* the run_ffmpeg threads and their encoder processes; pid = index
  ctl,         \* position of the control thread inside main()
  now,         \* datetime.now().strftime("%H:%M")
  created,     \* history: number of rows ever added (gives each row its uid)
  retired      \* history: ids that belonged to removed rows

vars == <<streams, logs, appended, statusFile, pidFile, threads, ctl, now, created, retired>>

Idle == [pc |-> "idle", k |-> 0, i |-> 0, from |-> "", pid |-> 0, time |-> "", ret |-> FALSE]

Init ==
  /\ streams = <<>>
  /\ logs = <<>>
  /\ appended = <<>>
  /\ statusFile = [i \in Ids |-> NoFile]
  /\ pidFile = [i \in Ids |-> 0]
  /\ threads = <<>>
  /\ ctl = Idle
  /\ now \in Times
  /\ created = 0
  /\ retired = {}

\* ------------------------------------------------------------ helpers
Rows == 1..Len(streams)
Workers == 1..Len(threads)

IsTerminal(st) == st \in {Selesai, Dihentikan} \/ StartsWithError(st)

\* list[-n:]
LastN(s, n) == IF Len(s) > n THEN SubSeq(s, Len(s) - n + 1, Len(s)) ELSE s

\* Mutation: the first 100 entries are kept instead of the last 100.
log_callbackKeepFirst(l, row_id, w, msg) ==
  IF row_id \in DOMAIN l
    THEN [l EXCEPT ![row_id] = SubSeq(Append(@, [by |-> w, msg |-> msg]), 1,
                                      IF Len(@) + 1 > LogCap THEN LogCap ELSE Len(@) + 1)]
    ELSE l

\* start_stream.log_callback: append, keep the last 100, only while the key exists.
\* An entry carries the text and (history) the thread that logged it.
log_callback(l, row_id, w, msg) ==
  IF row_id \in DOMAIN l
    THEN [l EXCEPT ![row_id] = LastN(Append(@, [by |-> w, msg |-> msg]), LogCap)]
    ELSE l

\* History of log_callback: the same append without the cut to the last 100.
log_history(h, row_id, w, msg) ==
  IF row_id \in DOMAIN h
    THEN [h EXCEPT ![row_id] = Append(@, [by |-> w, msg |-> msg])]
    ELSE h

\* DataFrame.drop(i).reset_index(drop=True)
DropRow(s, i) == [j \in 1..(Len(s) - 1) |-> IF j < i THEN s[j] ELSE s[j + 1]]

\* del logs[i]
DelKey(l, i) == [j \in (DOMAIN l) \ {i} |-> l[j]]

\* ------------------------------------------------- run_ffmpeg (thread)
\* Lines 63-68: log the command, subprocess.Popen succeeds or raises.
Popen(w) ==
  /\ threads[w].pc = "popen"
  /\ \E ok \in BOOLEAN :
       threads' = [threads EXCEPT ![w].pc = IF ok THEN "write_pid" ELSE "except",
                                  ![w].pstate = IF ok THEN "running" ELSE "none"]
  /\ logs' = log_callback(logs, threads[w].row_id, w, "Running: ffmpeg")
  /\ appended' = log_history(appended, threads[w].row_id, w, "Running: ffmpeg")
  /\ UNCHANGED <<streams, statusFile, pidFile, ctl, now, created, retired>>

\* Lines 71-72: stream_<row_id>.pid := pid.
WritePid(w) ==
  /\ threads[w].pc = "write_pid"
  /\ pidFile' = [pidFile EXCEPT ![threads[w].row_id] = w]
  /\ threads' = [threads EXCEPT ![w].pc = "write_streaming"]
  /\ UNCHANGED <<streams, logs, appended, statusFile, ctl, now, created, retired>>

\* Lines 75-76: stream_<row_id>.status := "streaming".
WriteStreaming(w) ==
  /\ threads[w].pc = "write_streaming"
  /\ statusFile' = [statusFile EXCEPT ![threads[w].row_id] = "streaming"]
  /\ threads' = [threads EXCEPT ![w].pc = "read_out"]
  /\ UNCHANGED <<streams, logs, appended, pidFile, ctl, now, created, retired>>

\* Lines 80-84: one line of the process's output is read and logged; the
\* process writes n lines in all.
ReadLineUpTo(w, n) ==
  /\ threads[w].pc = "read_out"
  /\ threads[w].pstate \in {"running", "exited"}
  /\ threads[w].lines < n
  /\ logs' = log_callback(logs, threads[w].row_id, w, "frame=" \o ToString(threads[w].lines + 1))
  /\ appended' = log_history(appended, threads[w].row_id, w, "frame=" \o ToString(threads[w].lines + 1))
  /\ threads' = [threads EXCEPT ![w].lines = @ + 1]
  /\ UNCHANGED <<streams, statusFile, pidFile, ctl, now, created, retired>>

ReadLine(w) == ReadLineUpTo(w, MaxLines)

\* Lines 80, 87: end of output after the n lines, process.wait() returns and
\* reaps the process (the line counter is dead after the loop).
WaitAfter(w, n) ==
  /\ threads[w].pc = "read_out"
  /\ threads[w].pstate = "exited"
  /\ threads[w].lines = n
  /\ threads' = [threads EXCEPT ![w].pc = "write_completed", ![w].pstate = "reaped",
                                ![w].lines = 0]
  /\ UNCHANGED <<streams, logs, appended, statusFile, pidFile, ctl, now, created, retired>>

Wait(w) == WaitAfter(w, MaxLines)

\* Mutation: the thread also sets the row's status itself.
WriteCompletedSetsStatus(w) ==
  /\ threads[w].pc = "write_completed"
  /\ statusFile' = [statusFile EXCEPT ![threads[w].row_id] = "completed"]
  /\ streams' = IF threads[w].row_id \in Rows
                  THEN [streams EXCEPT ![threads[w].row_id].Status = Selesai]
                  ELSE streams
  /\ logs' = log_callback(logs, threads[w].row_id, w, "Streaming completed.")
  /\ appended' = log_history(appended, threads[w].row_id, w, "Streaming completed.")
  /\ threads' = [threads EXCEPT ![w].pc = "finally"]
  /\ UNCHANGED <<pidFile, ctl, now, created, retired>>

\* Lines 90-94: stream_<row_id>.status := "completed", whatever the exit code.
WriteCompleted(w) ==
  /\ threads[w].pc = "write_completed"
  /\ statusFile' = [statusFile EXCEPT ![threads[w].row_id] = "completed"]
  /\ logs' = log_callback(logs, threads[w].row_id, w, "Streaming completed.")
  /\ appended' = log_history(appended, threads[w].row_id, w, "Streaming completed.")
  /\ threads' = [threads EXCEPT ![w].pc = "finally"]
  /\ UNCHANGED <<streams, pidFile, ctl, now, created, retired>>

\* Lines 96-103: the except clause after a failed Popen.
Except(w) ==
  /\ threads[w].pc = "except"
  /\ logs' = log_callback(logs, threads[w].row_id, w, "Error: " \o SpawnErrorText)
  /\ appended' = log_history(appended, threads[w].row_id, w, "Error: " \o SpawnErrorText)
  /\ statusFile' = [statusFile EXCEPT ![threads[w].row_id] = ErrorMarker]
  /\ threads' = [threads EXCEPT ![w].pc = "finally"]
  /\ UNCHANGED <<streams, pidFile, ctl, now, created, retired>>

\* Lines 105-111: the finally clause removes stream_<row_id>.pid if it exists.
Finally(w) ==
  /\ threads[w].pc = "finally"
  /\ logs' = log_callback(logs, threads[w].row_id, w, "Streaming finished or stopped.")
  /\ appended' = log_history(appended, threads[w].row_id, w, "Streaming finished or stopped.")
  /\ pidFile' = [pidFile EXCEPT ![threads[w].row_id] = 0]
  /\ threads' = [threads EXCEPT ![w].pc = "done"]
  /\ UNCHANGED <<streams, statusFile, ctl, now, created, retired>>

\* The encoder process ends on its own or after SIGTERM (then not with code 0).
ProcExit(w) ==
  /\ threads[w].pstate = "running"
  /\ \E c \in ExitCodes :
       /\ threads[w].termed => c # 0
       /\ threads' = [threads EXCEPT ![w].pstate = "exited", ![w].code = c]
  /\ UNCHANGED <<streams, logs, appended, statusFile, pidFile, ctl, now, created, retired>>

WorkerStep ==
  \/ \E w \in Workers : Popen(w)
  \/ \E w \in Workers : WritePid(w)
  \/ \E w \in Workers : WriteStreaming(w)
  \/ \E w \in Workers : ReadLine(w)
  \/ \E w \in Workers : Wait(w)
  \/ \E w \in Workers : WriteCompleted(w)
  \/ \E w \in Workers : Except(w)
  \/ \E w \in Workers : Finally(w)

\* ------------------------------------------------ main (control thread)
\* check_stream_statuses (lines 190-203): what the loop does to one row and to
\* that row's status file.  Row idx reads and removes only stream_<idx>.status,
\* so the loop is the row-wise application of these two.
\* Mutation: the tests on the row's status are dropped.
ReconciledStatusAnyRow(row, marker) ==
  IF marker = "completed" THEN Selesai
  ELSE IF StartsWithError(marker) THEN marker
  ELSE row.Status

ReconciledStatus(row, marker) ==
  IF marker = "completed" /\ row.Status = SedangLive THEN Selesai
  ELSE IF StartsWithError(marker) /\ row.Status = SedangLive THEN marker
  ELSE row.Status

\* Mutation: the marker is removed whatever the row's status.
ReconcileRemovesAnyRow(row, marker) ==
  \/ marker = "completed"
  \/ StartsWithError(marker)

ReconcileRemoves(row, marker) ==
  \/ marker = "completed" /\ row.Status = SedangLive
  \/ StartsWithError(marker) /\ row.Status = SedangLive

check_stream_statuses ==
  /\ streams' = [idx \in Rows |->
                   [streams[idx] EXCEPT !.Status = ReconciledStatus(streams[idx], statusFile[idx])]]
  /\ statusFile' = [idx \in Ids |->
                      IF idx \in Rows /\ ReconcileRemoves(streams[idx], statusFile[idx])
                        THEN NoFile ELSE statusFile[idx]]

\* check_scheduled_streams (lines 209-212): the test of one row, and the first
\* row from k on that passes it (0 when none does).
\* Mutation: the row's status is not tested.
ShouldTriggerAnyStatus(row, current_time) == row.JamMulai = current_time

ShouldTrigger(row, current_time) == row.Status = Menunggu /\ row.JamMulai = current_time

NextTrigger(rows, current_time, k) ==
  LET hit == {j \in k..Len(rows) : ShouldTrigger(rows[j], current_time)}
  IN  IF hit = {} THEN 0 ELSE CHOOSE j \in hit : \A m \in hit : j <= m

\* Where the control thread is once the scheduler loop has passed row k - 1.
SchedFrom(rows, current_time, k) ==
  LET j == NextTrigger(rows, current_time, k)
  IN  IF j = 0 THEN [Idle EXCEPT !.pc = "buttons"]
               ELSE [Idle EXCEPT !.pc = "sched", !.k = j, !.time = current_time]

\* Lines 251-254, 207: a script run starts: reconcile every row, read the clock,
\* scan for the first row to trigger.
RunScript ==
  /\ ctl.pc = "idle"
  /\ check_stream_statuses
  /\ ctl' = SchedFrom(streams', now, 1)
  /\ UNCHANGED <<logs, appended, pidFile, threads, now, created, retired>>

\* start_stream lines 116-136: create the log list, start the thread.
NewThread(row_id) ==
  [row_id |-> row_id, uid |-> streams[row_id].uid, pc |-> "popen",
   pstate |-> "none", code |-> 0, termed |-> FALSE, lines |-> 0]

StartThread(row_id) ==
  /\ logs' = IF row_id \in DOMAIN logs THEN logs
             ELSE [j \in (DOMAIN logs) \cup {row_id} |-> IF j = row_id THEN <<>> ELSE logs[j]]
  /\ appended' = IF row_id \in DOMAIN appended THEN appended
                 ELSE [j \in (DOMAIN appended) \cup {row_id} |-> IF j = row_id THEN <<>> ELSE appended[j]]
  /\ threads' = Append(threads, NewThread(row_id))

\* Lines 210-212: the scheduler calls start_stream for the matching row.
Sched ==
  /\ ctl.pc = "sched"
  /\ StartThread(ctl.k)
  /\ ctl' = [ctl EXCEPT !.pc = "start_status", !.i = ctl.k, !.from = "sched"]
  /\ UNCHANGED <<streams, statusFile, pidFile, now, created, retired>>

\* Lines 285-288: the Start button of a waiting row.
StartShown(row) == row.Status = Menunggu

ClickStart(i) ==
  /\ ctl.pc = "buttons"
  /\ i \in Rows
  /\ StartShown(streams[i])
  /\ StartThread(i)
  /\ ctl' = [ctl EXCEPT !.pc = "start_status", !.i = i, !.from = "button"]
  /\ UNCHANGED <<streams, statusFile, pidFile, now, created, retired>>

\* start_stream lines 139-145: status 'Sedang Live', status file "starting".
StartStatus ==
  /\ ctl.pc = "start_status"
  /\ streams' = [streams EXCEPT ![ctl.i].Status = SedangLive]
  /\ statusFile' = [statusFile EXCEPT ![ctl.i] = "starting"]
  /\ ctl' = IF ctl.from = "sched" THEN SchedFrom(streams', ctl.time, ctl.i + 1) ELSE Idle
  /\ UNCHANGED <<logs, appended, pidFile, threads, now, created, retired>>

\* Lines 290-292 and 150: the Stop button of a live row; stop_stream tests the pid file.
\* Mutation: the Stop button is shown for a waiting row too.
StopShownAlsoWaiting(row) == row.Status \in {SedangLive, Menunggu}

StopShown(row) == row.Status = SedangLive

ClickStop(i) ==
  /\ ctl.pc = "buttons"
  /\ i \in Rows
  /\ StopShown(streams[i])
  /\ ctl' = [ctl EXCEPT !.pc = IF pidFile[i] # 0 THEN "stop_read" ELSE "stop_pkill", !.i = i]
  /\ UNCHANGED <<streams, logs, appended, statusFile, pidFile, threads, now, created, retired>>

\* Lines 153-154: read the pid; a missing file raises and stop_stream returns False.
StopRead ==
  /\ ctl.pc = "stop_read"
  /\ ctl' = IF pidFile[ctl.i] # 0
              THEN [ctl EXCEPT !.pc = "stop_kill", !.pid = pidFile[ctl.i]]
              ELSE [ctl EXCEPT !.pc = "stop_ret", !.ret = FALSE]
  /\ UNCHANGED <<streams, logs, appended, statusFile, pidFile, threads, now, created, retired>>

\* Line 161: os.kill(pid, SIGTERM); a reaped process raises ProcessLookupError.
StopKill ==
  /\ ctl.pc = "stop_kill"
  /\ IF threads[ctl.pid].pstate \in {"running", "exited"}
       THEN /\ threads' = [threads EXCEPT ![ctl.pid].termed = (@ \/ threads[ctl.pid].pstate = "running")]
            /\ ctl' = [ctl EXCEPT !.pc = "stop_mark"]
       ELSE /\ ctl' = [ctl EXCEPT !.pc = "stop_ret", !.ret = FALSE]
            /\ UNCHANGED threads
  /\ UNCHANGED <<streams, logs, appended, statusFile, pidFile, now, created, retired>>

\* Lines 164-168: status 'Dihentikan', status file "stopped".
StopMark ==
  /\ ctl.pc = "stop_mark"
  /\ streams' = [streams EXCEPT ![ctl.i].Status = Dihentikan]
  /\ statusFile' = [statusFile EXCEPT ![ctl.i] = "stopped"]
  /\ ctl' = [ctl EXCEPT !.pc = "stop_rmpid"]
  /\ UNCHANGED <<logs, appended, pidFile, threads, now, created, retired>>

\* Lines 171-176: os.remove of the pid file; a missing file raises, return False.
StopRemovePid ==
  /\ ctl.pc = "stop_rmpid"
  /\ pidFile' = [pidFile EXCEPT ![ctl.i] = 0]
  /\ ctl' = [ctl EXCEPT !.pc = "stop_ret", !.ret = (pidFile[ctl.i] # 0)]
  /\ UNCHANGED <<streams, logs, appended, statusFile, threads, now, created, retired>>

\* Lines 178-186: no pid file: pkill ffmpeg signals every encoder process.
StopPkill ==
  /\ ctl.pc = "stop_pkill"
  /\ threads' = [w \in Workers |->
                   IF threads[w].pstate = "running" THEN [threads[w] EXCEPT !.termed = TRUE]
                                                     ELSE threads[w]]
  /\ streams' = [streams EXCEPT ![ctl.i].Status = Dihentikan]
  /\ ctl' = [ctl EXCEPT !.pc = "stop_ret", !.ret = TRUE]
  /\ UNCHANGED <<logs, appended, statusFile, pidFile, now, created, retired>>

\* Lines 292-293: stop_stream has returned; the run ends (st.rerun() when True).
StopReturn ==
  /\ ctl.pc = "stop_ret"
  /\ ctl' = Idle
  /\ UNCHANGED <<streams, logs, appended, statusFile, pidFile, threads, now, created, retired>>

\* Lines 295-301: the Remove button of a row in a terminal status.
CanRemove(row) == row.Status \in {Selesai, Dihentikan} \/ StartsWithError(row.Status)

ClickRemove(i) ==
  /\ ctl.pc = "buttons"
  /\ i \in Rows
  /\ CanRemove(streams[i])
  /\ streams' = DropRow(streams, i)
  /\ logs' = IF i \in DOMAIN logs THEN DelKey(logs, i) ELSE logs
  /\ appended' = IF i \in DOMAIN appended THEN DelKey(appended, i) ELSE appended
  /\ retired' = retired \cup {i}
  /\ ctl' = Idle
  /\ UNCHANGED <<statusFile, pidFile, threads, now, created>>

\* Lines 342-363: the Add Stream button.
NewRow(video_path, stream_key, start_time_str) ==
  [Video |-> video_path, StreamingKey |-> stream_key, JamMulai |-> start_time_str,
   Status |-> Menunggu, uid |-> created + 1, born |-> Len(streams) + 1]

\* Line 343: if video_path and stream_key.
\* Mutation: only the video path is tested.
ValidInputVideoOnly(video_path, stream_key) == video_path # ""

ValidInput(video_path, stream_key) == video_path # "" /\ stream_key # ""

AddStream(video_path, stream_key, start_time_str) ==
  /\ ctl.pc = "buttons"
  /\ IF ValidInput(video_path, stream_key)
       THEN /\ created < MaxCreates
            /\ streams' = Append(streams, NewRow(video_path, stream_key, start_time_str))
            /\ created' = created + 1
       ELSE UNCHANGED <<streams, created>>
  /\ ctl' = Idle
  /\ UNCHANGED <<logs, appended, statusFile, pidFile, threads, now, retired>>

\* No button was clicked in this run.
NoClick ==
  /\ ctl.pc = "buttons"
  /\ ctl' = Idle
  /\ UNCHANGED <<streams, logs, appended, statusFile, pidFile, threads, now, created, retired>>

\* The wall clock reaches another minute.
ClockAdvance ==
  /\ now' \in Times \ {now}
  /\ UNCHANGED <<streams, logs, appended, statusFile, pidFile, threads, ctl, created, retired>>

ControlStep ==
  \/ RunScript
  \/ Sched
  \/ StartStatus
  \/ StopRead
  \/ StopKill
  \/ StopMark
  \/ StopRemovePid
  \/ StopPkill
  \/ StopReturn
  \/ NoClick
  \/ \E i \in Ids : ClickStart(i)
  \/ \E i \in Ids : ClickStop(i)
  \/ \E i \in Ids : ClickRemove(i)
  \/ \E v \in Videos, key \in Keys, t \in Times : AddStream(v, key, t)

Next ==
  \/ ControlStep
  \/ WorkerStep
  \/ \E w \in Workers : ProcExit(w)
  \/ ClockAdvance

Spec == Init /\ [][Next]_vars

\* ---------------------------------------------------------------------
\* SpecLog: one job right after start_stream (lines 116-145 have run, the
\* thread has not stepped yet) whose encoder writes MaxLogLines lines; the
\* thread runs run_ffmpeg to its end.
InitLog ==
  /\ streams = << [Video |-> "a.mp4", StreamingKey |-> "key1", JamMulai |-> "10:00",
                   Status |-> SedangLive, uid |-> 1, born |-> 1] >>
  /\ logs = << <<>> >>
  /\ appended = << <<>> >>
  /\ statusFile = [i \in Ids |-> IF i = 1 THEN "starting" ELSE NoFile]
  /\ pidFile = [i \in Ids |-> 0]
  /\ threads = << [row_id |-> 1, uid |-> 1, pc |-> "popen", pstate |-> "none",
                   code |-> 0, termed |-> FALSE, lines |-> 0] >>
  /\ ctl = Idle
  /\ now \in Times
  /\ created = 1
  /\ retired = {}

NextLog ==
  \/ \E w \in Workers : Popen(w)
  \/ \E w \in Workers : WritePid(w)
  \/ \E w \in Workers : WriteStreaming(w)
  \/ \E w \in Workers : ReadLineUpTo(w, MaxLogLines)
  \/ \E w \in Workers : ProcExit(w)
  \/ \E w \in Workers : WaitAfter(w, MaxLogLines)
  \/ \E w \in Workers : WriteCompleted(w)
  \/ \E w \in Workers : Except(w)
  \/ \E w \in Workers : Finally(w)

SpecLog == InitLog /\ [][NextLog]_vars

\* ===================================================================
\* Properties
\* ===================================================================
\* The row that currently holds the job created as number u, and its threads.
UidsIn(rows) == {rows[k].uid : k \in DOMAIN rows}
RowOfUid(rows, u) == CHOOSE k \in DOMAIN rows : rows[k].uid = u
StatusOfUid(rows, u) == rows[RowOfUid(rows, u)].Status
OwnWorkers(k) == {w \in Workers : threads[w].uid = streams[k].uid}

\* The status of the specification that a value of column 'Status' stands for.
Kind(st) ==
  IF st = Menunggu THEN "Waiting"
  ELSE IF st = SedangLive THEN "Live"
  ELSE IF st = Selesai THEN "Completed"
  ELSE IF st = Dihentikan THEN "Stopped"
  ELSE IF StartsWithError(st) THEN "Error"
  ELSE "Starting"

KindAfter(rows, u) == IF u \in UidsIn(rows) THEN Kind(StatusOfUid(rows, u)) ELSE "removed"

\* C1: when the encoder process of a job has exited with a nonzero code, the
\* marker its worker writes on exit is an error:<message> marker with a
\* non-empty message, and a job whose process exited becomes Completed only
\* if the exit code was 0.
C1_WorkerWritesExitMarker(w) ==
  /\ threads[w].pc = "write_completed"
  /\ threads'[w].pc = "finally"

C1_NonzeroExitIsError ==
  [][ /\ \A w \in Workers :
           C1_WorkerWritesExitMarker(w) /\ threads[w].code # 0
             => /\ StartsWithError(statusFile'[threads[w].row_id])
                /\ statusFile'[threads[w].row_id] # "error: "
      /\ \A k \in Rows : \A w \in OwnWorkers(k) :
           (/\ streams[k].uid \in UidsIn(streams')
            /\ streams[k].Status # Selesai
            /\ StatusOfUid(streams', streams[k].uid) = Selesai
            /\ threads[w].pstate \in {"exited", "reaped"})
             => threads[w].code = 0 ]_vars

\* C2: for each job id at most one started and not yet exited encoder process
\* exists (at most one Process Handle per id).
Handles(id) == {w \in Workers : threads[w].row_id = id /\ threads[w].pstate = "running"}

C2_OneHandlePerId == \A id \in Ids : Cardinality(Handles(id)) <= 1

\* C3: every row in the store has the id it was given at creation, and no row
\* has an id that belonged to a removed row (ids are stable and never reused).
C3_IdsStableNeverReused ==
  \A k \in Rows : streams[k].born = k /\ k \notin retired

\* C4: when stop_stream returns for a row that was 'Sedang Live', the row's
\* status is 'Dihentikan'.
C4_StopYieldsStopped ==
  ctl.pc = "stop_ret" => streams[ctl.i].Status = Dihentikan

\* C5: a job whose status is Stopped has no encoder process that runs without
\* having received the termination signal (none keeps running, none is spawned
\* later).
C5_StoppedJobHasNoProcess ==
  \A k \in Rows : \A w \in OwnWorkers(k) :
    streams[k].Status = Dihentikan
      => ~(threads[w].pstate = "running" /\ ~threads[w].termed)

\* C6: the stop of a job that has no pid file sets that job's status to Stopped
\* and changes nothing of any other job: status, pid file, status file and
\* encoder process of the others stay as they are.
C6_StopNoHandleStep == ctl.pc = "stop_pkill" /\ ctl'.pc = "stop_ret"

C6_StopWithoutHandleIsLocal ==
  [][ C6_StopNoHandleStep =>
        /\ streams'[ctl.i].Status = Dihentikan
        /\ \A k \in Rows \ {ctl.i} : streams'[k] = streams[k]
        /\ \A id \in Ids \ {ctl.i} : statusFile'[id] = statusFile[id] /\ pidFile'[id] = pidFile[id]
        /\ \A w \in Workers : threads[w].uid # streams[ctl.i].uid => threads'[w] = threads[w] ]_vars

\* C7: after a failed spawn no pid was recorded by that worker and the job
\* reaches Error: once the worker has finished and the control thread is
\* between two runs, a job that is still Live has the error marker pending
\* under its id (only that marker lets a later tick move it to Error).
SpawnFailed(w) == threads[w].pc = "done" /\ threads[w].pstate = "none"

C7_SpawnFailureBecomesError ==
  \A k \in Rows : \A w \in OwnWorkers(k) :
    (SpawnFailed(w) /\ ctl.pc = "idle" /\ streams[k].Status = SedangLive)
      => StartsWithError(statusFile[k]) /\ pidFile[k] # w

\* C8: a Live job that was not stopped and whose process exited with code 0
\* reaches Completed: once its worker has finished and the control thread is
\* between two runs, a job that is still Live has the completed marker
\* pending under its id (only that marker lets a later tick move it to
\* Completed).
ExitedZero(w) ==
  /\ threads[w].pc = "done"
  /\ threads[w].pstate = "reaped"
  /\ threads[w].code = 0
  /\ ~threads[w].termed

C8_ExitZeroBecomesCompleted ==
  \A k \in Rows : \A w \in OwnWorkers(k) :
    (ExitedZero(w) /\ ctl.pc = "idle" /\ streams[k].Status = SedangLive)
      => statusFile[k] = "completed"

\* C9 (as stated): every status change of a job is one of Waiting -> Starting,
\* Starting -> Live, Live -> Completed | Error, Starting | Live -> Stopped,
\* Completed | Stopped | Error -> removed.
SpecTransitions ==
  { <<"Waiting", "Starting">>, <<"Starting", "Live">>,
    <<"Live", "Completed">>, <<"Live", "Error">>,
    <<"Starting", "Stopped">>, <<"Live", "Stopped">>,
    <<"Completed", "removed">>, <<"Stopped", "removed">>, <<"Error", "removed">> }

CodeTransitions ==
  { <<"Waiting", "Live">>,
    <<"Live", "Completed">>, <<"Live", "Error">>, <<"Live", "Stopped">>,
    <<"Completed", "removed">>, <<"Stopped", "removed">>, <<"Error", "removed">> }

C10_TerminalAbsorbing ==
  [][ \A u \in UidsIn(streams) \cap UidsIn(streams') :
        IsTerminal(StatusOfUid(streams, u))
          => StatusOfUid(streams', u) = StatusOfUid(streams, u) ]_vars

\* A stopped job whose worker wrote "completed" afterwards, seen by a
\* reconciliation that left it Stopped.
C10_Witness ==
  \E k \in Rows :
    /\ streams[k].Status = Dihentikan
    /\ statusFile[k] = "completed"
    /\ \E w \in OwnWorkers(k) : threads[w].pc = "done" /\ threads[w].row_id = k
    /\ ctl.pc = "buttons"

\* C11: a record leaves the store only by a remove of a record whose status is
\* Completed, Stopped or Error (no record in Waiting, Starting or Live is ever
\* removed), only that record leaves, and after the remove no log entry of
\* that job is present any more.
C11_LogEntriesOf(l, u) ==
  {<<id, j>> \in (DOMAIN l) \X (1..LogCap) : j <= Len(l[id]) /\ threads[l[id][j].by].uid = u}

C11_RemoveTerminalWithLogs ==
  [][ \A u \in UidsIn(streams) \ UidsIn(streams') :
        /\ IsTerminal(StatusOfUid(streams, u))
        /\ UidsIn(streams') = UidsIn(streams) \ {u}
        /\ C11_LogEntriesOf(logs', u) = {} ]_vars

\* C12: the scheduler triggers a row only if it is Waiting and its start time
\* is the tick's time; when the scheduler loop of a tick ends no Waiting row
\* with that start time is left (all were triggered); a trigger starts exactly
\* one thread for a job that had none, and no job ever has a second thread.
C12_TriggerStep == ctl.pc = "sched" /\ ctl'.pc = "start_status"

C12_TickTime == IF ctl.pc = "idle" THEN now ELSE ctl.time

C12_LoopEnds ==
  /\ ctl.pc = "idle" \/ (ctl.pc = "start_status" /\ ctl.from = "sched")
  /\ ctl'.pc = "buttons"

C12_ThreadsOf(ths, u) == {w \in DOMAIN ths : ths[w].uid = u}

C12_TickTriggersOnce ==
  [][ /\ C12_TriggerStep =>
           /\ streams[ctl.k].Status = Menunggu
           /\ streams[ctl.k].JamMulai = ctl.time
           /\ C12_ThreadsOf(threads, streams[ctl.k].uid) = {}
           /\ Cardinality(C12_ThreadsOf(threads', streams[ctl.k].uid)) = 1
           /\ Len(threads') = Len(threads) + 1
      /\ C12_LoopEnds =>
           \A k \in DOMAIN streams' :
             ~(streams'[k].Status = Menunggu /\ streams'[k].JamMulai = C12_TickTime)
      /\ \A u \in 1..created' : Cardinality(C12_ThreadsOf(threads', u)) <= 1 ]_vars

\* The scheduler is triggering row 2 in a tick whose time is also the start
\* time of row 1, which is Live with its thread just started.
C12_Witness ==
  /\ ctl.pc = "start_status" /\ ctl.from = "sched" /\ ctl.i = 2
  /\ streams[1].Status = SedangLive /\ streams[1].JamMulai = ctl.time
  /\ streams[2].JamMulai = ctl.time
  /\ statusFile[1] = "starting"
  /\ Len(threads) = 2 /\ threads[1].pc = "popen"

\* C13: Add Stream with an empty video path or an empty stream key leaves the
\* store unchanged; with both non-empty it appends exactly one row, with
\* status Waiting and an id (and creation number) that no row of the store
\* has, and leaves the rows that were there unchanged.
C13_CreateValidated ==
  [][ \A v \in Videos, key \in Keys, t \in Times :
        AddStream(v, key, t) =>
          IF v = "" \/ key = ""
            THEN streams' = streams
            ELSE /\ Len(streams') = Len(streams) + 1
                 /\ \A k \in Rows : streams'[k] = streams[k]
                 /\ streams'[Len(streams')].Status = Menunggu
                 /\ streams'[Len(streams')].born = Len(streams')
                 /\ Len(streams') \notin Rows
                 /\ streams'[Len(streams')].uid \notin UidsIn(streams) ]_vars

\* A second row was just added to a store whose first row is no longer Waiting.
C13_Witness ==
  /\ ctl.pc = "idle"
  /\ Len(streams) = 2
  /\ streams[2].Status = Menunggu
  /\ streams[1].Status # Menunggu
  /\ created = 2

C15_MarkerWrittenByOwnWorkerOnly ==
  [][ \A id \in Ids :
        (statusFile'[id] # statusFile[id] /\ statusFile'[id] # NoFile)
          => \E w \in Workers :
               /\ threads[w].row_id = id
               /\ threads'[w].pc # threads[w].pc
               /\ ctl' = ctl
               /\ id \in Rows => threads[w].uid = streams[id].uid ]_vars

\* C16: a completed or error marker that is pending when a tick begins is read
\* and deleted by that tick's reconciliation, so none stays pending for ever:
\* it lies under the id of a row that is Live.
C16_PendingMarkerIsConsumed ==
  \A id \in Ids :
    (ctl.pc = "idle" /\ (statusFile[id] = "completed" \/ StartsWithError(statusFile[id])))
      => id \in Rows /\ streams[id].Status = SedangLive

\* C17: a reconciliation changes a row's status and deletes its marker exactly
\* when the row is Live and the marker is completed or begins with error:;
\* every other row and every other status file is left as it was.
C17_ReconcileStep == ctl.pc = "idle" /\ ctl'.pc # "idle"

C17_ReconcileOnlyLiveWithFinalMarker ==
  [][ C17_ReconcileStep =>
        /\ Len(streams') = Len(streams)
        /\ \A k \in Rows :
             IF streams[k].Status = SedangLive /\ statusFile[k] = "completed"
               THEN /\ streams'[k] = [streams[k] EXCEPT !.Status = Selesai]
                    /\ statusFile'[k] = NoFile
             ELSE IF streams[k].Status = SedangLive /\ StartsWithError(statusFile[k])
               THEN /\ streams'[k] = [streams[k] EXCEPT !.Status = statusFile[k]]
                    /\ statusFile'[k] = NoFile
             ELSE /\ streams'[k] = streams[k]
                  /\ statusFile'[k] = statusFile[k]
        /\ \A id \in Ids \ Rows : statusFile'[id] = statusFile[id] ]_vars

\* A reconciliation has just left a streaming marker of a Live row and a
\* completed marker of a Stopped row in place.
C17_Witness ==
  /\ ctl.pc = "buttons"
  /\ \E k \in Rows : streams[k].Status = SedangLive /\ statusFile[k] = "streaming"
  /\ \E j \in Rows : streams[j].Status = Dihentikan /\ statusFile[j] = "completed"

\* C18: a step of a run_ffmpeg thread (or of its process) leaves the rows of
\* the store unchanged and changes no status file, pid file or log list
\* other than the ones keyed by the thread's row id.
C18_StepOf(w) ==
  /\ ctl' = ctl
  /\ Len(threads') = Len(threads)
  /\ threads'[w] # threads[w]

C19_RunningJobNotEndedByOtherMarker ==
  \A k \in Rows : \A w \in OwnWorkers(k) :
    (streams[k].Status = Selesai \/ StartsWithError(streams[k].Status))
      => threads[w].pstate # "running"

\* C20: the remove of one row leaves every other job as it was: the same
\* fields and status, and the same id, so that the status file, the pid file
\* and the log list its thread uses are still the ones of its row.
C20_RemoveStep == ctl.pc = "buttons" /\ Len(streams') < Len(streams)

C20_RemoveLeavesOthers ==
  [][ C20_RemoveStep =>
        \A u \in UidsIn(streams') :
          /\ u \in UidsIn(streams)
          /\ streams'[RowOfUid(streams', u)] = streams[RowOfUid(streams, u)]
          /\ \A w \in Workers :
               (threads[w].uid = u /\ threads[w].row_id = RowOfUid(streams, u))
                 => threads'[w].row_id = RowOfUid(streams', u) ]_vars

====
